---------------------------- MODULE Spec2Model ----------------------------
(***************************************************************************)
(* A model of pufferlib/emulation.py: the schema flattener, the sample     *)
(* flatten / concatenate / split / unflatten pipeline, the discrete merge, *)
(* the team grouping and padding helpers, and the two adapters             *)
(* (GymPufferEnv, PettingZooPufferEnv).                                    *)
(*                                                                         *)
(* Conventions.                                                            *)
(*  - A Python dict (insertion ordered) is a sequence of <<key, value>>    *)
(*    pairs with pairwise distinct keys.                                   *)
(*  - A number x is stored as the integer 2*x, so that the float 0.5 is    *)
(*    representable and a cast to an integer dtype (truncation) is not the *)
(*    identity.  Integer-typed data is therefore always even.              *)
(*  - A numpy array is [kind |-> "ndarray", shape, dtype, data] with data  *)
(*    in row-major order; a Python int is [kind |-> "int", v].             *)
(*  - A raised exception is [kind |-> "error", exc |-> <exception class>]. *)
(***************************************************************************)
EXTENDS Integers, Sequences, FiniteSets, TLC

VARIABLES
    (* inputs and results of the pure space / sample functions *)
    pc,               \* position in the pipeline under check
    space,            \* a gym space (the schema)
    flat_space,       \* flatten_space(space)
    multidiscrete,    \* convert_to_multidiscrete(flat_space)
    sample,           \* a sample conforming to space
    batched,          \* split's batched flag
    flat_sample,      \* python_flatten(sample)
    stacked_sample,   \* concatenate(flat_sample)
    leaves,           \* split(stacked_sample, flat_space, batched)
    unflattened,      \* python_unflatten(leaves, space)
    (* inputs and results of the grouping / padding helpers *)
    agents,           \* the agents argument of pad_to_const_num_agents
    agent_data,       \* the per-agent mappings passed (*args; obs, rewards, dones, infos)
    team_spec,        \* the teams argument of group_into_teams
    strict,           \* __debug__ as group_into_teams sees it
    grouped,          \* what group_into_teams returned or raised
    ungrouped,        \* what ungroup_from_teams returned
    padded,           \* what pad_to_const_num_agents returned
    (* the adapters and the environment they wrap *)
    adapter,          \* "gym", "pettingzoo", or "none" when no adapter was built
    debug,            \* __debug__
    initialized,      \* self.initialized
    done,             \* GymPufferEnv.done
    teams,            \* PettingZooPufferEnv.teams (NoVal for None)
    possible_agents,  \* PettingZooPufferEnv.possible_agents
    structured_action_space,  \* the action space cached by the last action_space call;
                              \* flat_action_space is its flatten_space
    env_agents,       \* env.agents of the multi-agent environment
    env_done,         \* the single-agent environment's episode is over
    resets,           \* reset() calls made so far
    env_call,         \* the environment call made by the last adapter call
    ret               \* the last adapter call and what it returned or raised

pureVars == <<pc, space, flat_space, multidiscrete, sample, batched,
              flat_sample, stacked_sample, leaves, unflattened>>
helperVars == <<agents, agent_data, team_spec, strict, grouped, ungrouped, padded>>

adapterVars == <<adapter, debug, initialized, done, teams, possible_agents,
                 structured_action_space, env_agents, env_done, resets,
                 env_call, ret>>

vars == <<pureVars, helperVars, adapterVars>>

(***************************************************************************)
(* Bounds of the model.                                                    *)
(***************************************************************************)
MaxWidth == 2        \* children per Tuple / Dict container
MaxCard == 3         \* largest cardinality of a Discrete leaf
BatchSize == 2       \* leading dimension of a batched sample
MaxArgs == 2         \* per-agent mappings passed to one group_into_teams call
MaxResets == 2       \* reset() calls in one run
MaxActions == 2      \* entries of the actions mapping of one step() call

(***************************************************************************)
(* Generic helpers.                                                        *)
(***************************************************************************)
NoVal == [kind |-> "none"]
Raise(e, args) == [kind |-> "error", exc |-> e, args |-> args]
Err(e) == Raise(e, <<>>)
IsErr(v) == v.kind = "error"

Range(s) == {s[i] : i \in 1..Len(s)}

RECURSIVE Prod(_)
Prod(s) == IF s = <<>> THEN 1 ELSE Head(s) * Prod(Tail(s))

RECURSIVE ConcatAll(_)
ConcatAll(ss) == IF ss = <<>> THEN <<>> ELSE Head(ss) \o ConcatAll(Tail(ss))

Min(a, b) == IF a < b THEN a ELSE b

(* Sequences over S of length 1..n. *)
SeqsUpTo(S, n) == UNION {[1..k -> S] : k \in 1..n}

(* Sequences without repetition. *)
Injective(s) == \A i, j \in 1..Len(s) : i # j => s[i] # s[j]

(* Python dict operations on the sequence-of-pairs representation. *)
Keys(d) == [i \in 1..Len(d) |-> d[i][1]]
Values(d) == [i \in 1..Len(d) |-> d[i][2]]
KeySet(d) == {d[i][1] : i \in 1..Len(d)}
Has(d, k) == \E i \in 1..Len(d) : d[i][1] = k
Get(d, k) == d[CHOOSE i \in 1..Len(d) : d[i][1] = k][2]
(* d[k] = v: an existing key keeps its position and takes the new value. *)
DictSet(d, k, v) ==
    IF Has(d, k)
    THEN [i \in 1..Len(d) |-> IF d[i][1] = k THEN <<k, v>> ELSE d[i]]
    ELSE Append(d, <<k, v>>)

(***************************************************************************)
(* gym spaces.                                                             *)
(***************************************************************************)
Box(shape, dtype) == [kind |-> "Box", shape |-> shape, dtype |-> dtype]
Discrete(n) == [kind |-> "Discrete", n |-> n, shape |-> <<>>, dtype |-> "int"]
MultiDiscrete(nvec) ==
    [kind |-> "MultiDiscrete", nvec |-> nvec, shape |-> <<Len(nvec)>>, dtype |-> "int"]
TupleSpace(spaces) == [kind |-> "Tuple", spaces |-> spaces]
DictSpace(items) == [kind |-> "Dict", spaces |-> items]

IsLeaf(s) == s.kind \notin {"Tuple", "Dict"}

(***************************************************************************)
(* flatten_space: the recursion helper writes flat[key + 'V'] = current    *)
(* into the one dict "flat" shared by the whole traversal.                 *)
(***************************************************************************)
RECURSIVE flatten_space_helper(_, _, _)
RECURSIVE flatten_space_children(_, _, _, _, _)

flatten_space_helper(flat, current, key) ==
    IF current.kind \in {"Tuple", "Dict"}
    THEN flatten_space_children(flat, current, key, 1, current.kind)
    ELSE DictSet(flat, key \o "V", current)

(* The for loop over a container's children, child number i (1-based here, *)
(* enumerate() counts from 0).                                             *)
flatten_space_children(flat, current, key, i, kind) ==
    IF i > Len(current.spaces) THEN flat
    ELSE LET childKey == IF kind = "Tuple"
                         THEN key \o "T" \o ToString(i - 1) \o "."
                         ELSE key \o "D" \o current.spaces[i][1] \o "."
             child == IF kind = "Tuple" THEN current.spaces[i]
                      ELSE current.spaces[i][2]
         IN flatten_space_children(
                flatten_space_helper(flat, child, childKey), current, key, i + 1, kind)

flatten_space(s) == flatten_space_helper(<<>>, s, "")

(***************************************************************************)
(* convert_to_multidiscrete                                                *)
(***************************************************************************)
RECURSIVE convert_lens_skip_box(_, _, _)
(* convert_lens with a leaf that is not discrete dropped instead of raising. *)
convert_lens_skip_box(vals, i, lens) ==
    IF i > Len(vals) THEN [kind |-> "lens", lens |-> lens]
    ELSE IF vals[i].kind = "Discrete"
         THEN convert_lens_skip_box(vals, i + 1, Append(lens, vals[i].n))
    ELSE IF vals[i].kind = "MultiDiscrete"
         THEN convert_lens_skip_box(vals, i + 1, lens \o vals[i].nvec)
    ELSE convert_lens_skip_box(vals, i + 1, lens)

RECURSIVE convert_lens(_, _, _)
(* The loop over flat_space.values(): the lens collected, or the ValueError *)
(* that leaves the function.                                                *)
convert_lens(vals, i, lens) ==
    IF i > Len(vals) THEN [kind |-> "lens", lens |-> lens]
    ELSE IF vals[i].kind = "Discrete"
         THEN convert_lens(vals, i + 1, Append(lens, vals[i].n))
    ELSE IF vals[i].kind = "MultiDiscrete"
         THEN convert_lens(vals, i + 1, lens \o vals[i].nvec)
    ELSE Err("ValueError")

convert_to_multidiscrete(flat) ==
    LET r == convert_lens(Values(flat), 1, <<>>)
    IN IF IsErr(r) THEN r ELSE MultiDiscrete(r.lens)

(***************************************************************************)
(* numpy arrays and Python values.                                         *)
(***************************************************************************)
NdArray(shape, dtype, data) ==
    [kind |-> "ndarray", shape |-> shape, dtype |-> dtype, data |-> data]
PyInt(v) == [kind |-> "int", v |-> v]
PyTuple(items) == [kind |-> "tuple", items |-> items]
PyDict(items) == [kind |-> "dict", items |-> items]

(* Truncation toward zero of the number stored as d (d is twice the number). *)
Trunc(d) == IF d >= 0 THEN d - (d % 2) ELSE 0 - ((0 - d) - ((0 - d) % 2))
CastElem(d, typ) == IF typ = "int" THEN Trunc(d) ELSE d

ravel(a) == NdArray(<<Len(a.data)>>, a.dtype, a.data)
astype(a, typ) ==
    NdArray(a.shape, typ, [i \in 1..Len(a.data) |-> CastElem(a.data[i], typ)])
(* numpy's type promotion over the dtypes of the arrays joined. *)
PromoteTypes(arrs) ==
    IF \E i \in 1..Len(arrs) : arrs[i].dtype = "float" THEN "float" ELSE "int"
(* np.concatenate of 1-D arrays. *)
np_concatenate(arrs) ==
    LET data == ConcatAll([i \in 1..Len(arrs) |-> arrs[i].data])
    IN IF Len(arrs) = 0 THEN Err("ValueError")
       ELSE NdArray(<<Len(data)>>, PromoteTypes(arrs), data)
(* a.reshape(shape): the element count must not change. *)
reshape(a, shape) ==
    IF IsErr(a) THEN a
    ELSE IF Prod(shape) # Len(a.data) THEN Err("ValueError")
    ELSE NdArray(shape, a.dtype, a.data)
(* a[lo:hi]: a slice of the first axis; a 0-d array cannot be indexed. *)
SliceAxis0(a, lo, hi) ==
    IF a.shape = <<>> THEN Err("IndexError")
    ELSE LET d0 == a.shape[1]
             row == Prod(Tail(a.shape))
             l == Min(lo, d0)
             h == Min(hi, d0)
         IN NdArray(<<h - l>> \o Tail(a.shape), a.dtype,
                    SubSeq(a.data, l * row + 1, h * row))
(* a[:, lo:hi]: a slice of the second axis; needs two dimensions. *)
SliceAxis1(a, lo, hi) ==
    IF Len(a.shape) < 2 THEN Err("IndexError")
    ELSE LET d0 == a.shape[1]
             d1 == a.shape[2]
             rest == Tail(Tail(a.shape))
             row == Prod(rest)
             l == Min(lo, d1)
             h == Min(hi, d1)
         IN NdArray(<<d0, h - l>> \o rest, a.dtype,
                    ConcatAll([b \in 1..d0 |->
                        SubSeq(a.data, (b - 1) * d1 * row + l * row + 1,
                                       (b - 1) * d1 * row + h * row)]))

(***************************************************************************)
(* python_flatten: the leaves of a sample in traversal order.              *)
(***************************************************************************)
RECURSIVE python_flatten_helper(_, _)
RECURSIVE python_flatten_children(_, _, _)

python_flatten_helper(flat, current) ==
    IF current.kind = "tuple" THEN python_flatten_children(flat, current.items, 1)
    ELSE IF current.kind = "dict"
         THEN python_flatten_children(flat, Values(current.items), 1)
    ELSE IF current.kind = "ndarray" THEN Append(flat, current)
    ELSE Append(flat, NdArray(<<1>>, "int", <<current.v>>))

python_flatten_children(flat, elems, i) ==
    IF i > Len(elems) THEN flat
    ELSE python_flatten_children(python_flatten_helper(flat, elems[i]), elems, i + 1)

python_flatten(smp) == python_flatten_helper(<<>>, smp)

(***************************************************************************)
(* concatenate: one leaf is returned as it is, several are raveled and     *)
(* joined.                                                                 *)
(***************************************************************************)
concatenate(flat) ==
    IF Len(flat) = 1 THEN flat[1]
    ELSE np_concatenate([i \in 1..Len(flat) |-> ravel(flat[i])])

(***************************************************************************)
(* split                                                                   *)
(***************************************************************************)
(* One pass of the loop body: the leaf cut out for subspace at ptr. *)
split_leaf(stacked, subspace, ptr, isBatched) ==
    LET sz == Prod(subspace.shape)
        shape == IF subspace.shape = <<>> THEN <<1>> ELSE subspace.shape
    IN IF isBatched
       THEN LET cut == SliceAxis1(stacked, ptr, ptr + sz)
            IN IF IsErr(cut) THEN cut
               ELSE reshape(cut, <<stacked.shape[1]>> \o shape)
       ELSE LET cut == SliceAxis0(stacked, ptr, ptr + sz)
                samp == IF IsErr(cut) THEN cut ELSE reshape(cut, shape)
            IN IF IsErr(samp) THEN samp
               ELSE IF subspace.kind = "Discrete"
                    THEN PyInt(Trunc(astype(samp, subspace.dtype).data[1]))
               ELSE astype(samp, subspace.dtype)

RECURSIVE split_loop(_, _, _, _, _, _)
split_loop(stacked, flat, isBatched, i, ptr, acc) ==
    IF i > Len(flat) THEN [kind |-> "leaves", items |-> acc]
    ELSE LET samp == split_leaf(stacked, flat[i][2], ptr, isBatched)
         IN IF IsErr(samp) THEN samp
            ELSE split_loop(stacked, flat, isBatched, i + 1,
                            ptr + Prod(flat[i][2].shape),
                            DictSet(acc, flat[i][1], samp))

split(stacked, flat, isBatched) ==
    IF isBatched /\ stacked.shape = <<>> THEN Err("IndexError")
    ELSE split_loop(stacked, flat, isBatched, 1, 0, <<>>)

(***************************************************************************)
(* python_unflatten: rebuilds the containers of the space, taking the next *)
(* leaf value at the cursor idx for every leaf visited.  The helper        *)
(* returns [val, idx], or the exception raised.                            *)
(***************************************************************************)
RECURSIVE python_unflatten_helper(_, _, _)
RECURSIVE python_unflatten_children(_, _, _, _, _)

(* int(x) of a leaf value. *)
PyIntOf(x) ==
    IF x.kind = "int" THEN x
    ELSE IF Len(x.data) = 1 THEN PyInt(Trunc(x.data[1]))
    ELSE Err("TypeError")

python_unflatten_helper(flat, sp, idx) ==
    IF sp.kind \in {"Tuple", "Dict"}
    THEN python_unflatten_children(flat, sp, idx, 1, <<>>)
    ELSE IF idx > Len(flat) THEN Err("IndexError")
    ELSE IF sp.kind = "Discrete"
         THEN LET v == PyIntOf(flat[idx])
              IN IF IsErr(v) THEN v ELSE [kind |-> "ret", val |-> v, idx |-> idx + 1]
    ELSE [kind |-> "ret", val |-> flat[idx], idx |-> idx + 1]

python_unflatten_children(flat, sp, idx, i, acc) ==
    IF i > Len(sp.spaces)
    THEN [kind |-> "ret", idx |-> idx,
          val |-> IF sp.kind = "Tuple" THEN PyTuple(acc) ELSE PyDict(acc)]
    ELSE LET sub == IF sp.kind = "Tuple" THEN sp.spaces[i] ELSE sp.spaces[i][2]
             r == python_unflatten_helper(flat, sub, idx)
         IN IF IsErr(r) THEN r
            ELSE python_unflatten_children(flat, sp, r.idx, i + 1,
                    IF sp.kind = "Tuple" THEN Append(acc, r.val)
                    ELSE DictSet(acc, sp.spaces[i][1], r.val))

python_unflatten(flat, sp) ==
    LET r == python_unflatten_helper(flat, sp, 1)
    IN IF IsErr(r) THEN r ELSE r.val

(* unflatten applied to what split returned. *)
python_unflatten_leaves(lv, sp) ==
    IF IsErr(lv) THEN lv ELSE python_unflatten(Values(lv.items), sp)

(***************************************************************************)
(* pad_agent_data / pad_to_const_num_agents                                *)
(***************************************************************************)
(* pad_agent_data walking the data's own keys: nothing is padded. *)
pad_agent_data_present_only(data, agts, pad_value) ==
    [i \in 1..Len(data) |-> data[i]]

pad_agent_data(data, agts, pad_value) ==
    [i \in 1..Len(agts) |->
        <<agts[i], IF Has(data, agts[i]) THEN Get(data, agts[i]) ELSE pad_value>>]

PyBool(b) == [kind |-> "bool", v |-> b]
EmptyInfo == PyDict(<<>>)

(* [obs, rewards, dones, infos], each padded with its own fill value. *)
pad_to_const_num_agents(agts, obs, rewards, dones, infos, pad_obs) ==
    <<pad_agent_data(obs, agts, pad_obs),
      pad_agent_data(rewards, agts, PyInt(0)),
      pad_agent_data(dones, agts, PyBool(FALSE)),
      pad_agent_data(infos, agts, EmptyInfo)>>

(***************************************************************************)
(* check_teams, group_into_teams, ungroup_from_teams                       *)
(***************************************************************************)
(* {item for team in teams.values() for item in team} *)
TeamMembers(tms) == UNION {Range(tms[t][2]) : t \in 1..Len(tms)}

(* check_teams raises ValueError unless the two sets are equal. *)
check_teams(env_possible_agents, tms) ==
    IF Range(env_possible_agents) # TeamMembers(tms)
    THEN Err("ValueError") ELSE NoVal

RECURSIVE group_team_zero_fill(_, _, _, _)
(* group_team with an absent member filled with 0 instead of left out. *)
group_team_zero_fill(team, data, i, acc) ==
    IF i > Len(team) THEN acc
    ELSE group_team_zero_fill(team, data, i + 1,
            DictSet(acc, team[i],
                    IF Has(data, team[i]) THEN Get(data, team[i]) ELSE PyInt(0)))

RECURSIVE group_team(_, _, _, _)
(* The inner loop over one team's members: the members present in *)
(* agent_data, with their data.                                   *)
group_team(team, data, i, acc) ==
    IF i > Len(team) THEN acc
    ELSE group_team(team, data, i + 1,
            IF Has(data, team[i]) THEN DictSet(acc, team[i], Get(data, team[i]))
            ELSE acc)

RECURSIVE group_teams(_, _, _, _)
(* The loop over teams.items() for one agent_data. *)
group_teams(tms, data, t, acc) ==
    IF t > Len(tms) THEN acc
    ELSE group_teams(tms, data, t + 1,
            DictSet(acc, tms[t][1], group_team(tms[t][2], data, 1, <<>>)))

RECURSIVE group_args(_, _, _, _, _)
(* The loop over args: grouped_data so far, or the ValueError raised. *)
group_args(tms, args, isDebug, i, acc) ==
    IF i > Len(args) THEN [kind |-> "list", items |-> acc]
    ELSE IF isDebug /\ KeySet(args[i]) # TeamMembers(tms) THEN Err("ValueError")
    ELSE group_args(tms, args, isDebug, i + 1,
                    Append(acc, group_teams(tms, args[i], 1, <<>>)))

(* One mapping passed: its team_data is returned itself, not in a list. *)
group_into_teams(tms, args, isDebug) ==
    LET r == group_args(tms, args, isDebug, 1, <<>>)
    IN IF IsErr(r) THEN r
       ELSE IF Len(r.items) = 1 THEN [kind |-> "team_data", items |-> r.items[1]]
       ELSE r

RECURSIVE ungroup_team(_, _, _)
ungroup_team(team, i, acc) ==
    IF i > Len(team) THEN acc
    ELSE ungroup_team(team, i + 1, DictSet(acc, team[i][1], team[i][2]))

RECURSIVE ungroup_teams(_, _, _)
ungroup_teams(team_data, t, acc) ==
    IF t > Len(team_data) THEN acc
    ELSE ungroup_teams(team_data, t + 1, ungroup_team(team_data[t][2], 1, acc))

ungroup_from_teams(team_data) == ungroup_teams(team_data, 1, <<>>)

(***************************************************************************)
(* Inputs: the spaces and samples the functions are applied to.            *)
(***************************************************************************)
KeyNames == {"a", "b", "a.Db"}

(* Tuple and Dict containers over the children S, at most MaxWidth wide. *)
TuplesOver(S) == {TupleSpace(c) : c \in SeqsUpTo(S, MaxWidth)}
DictsOver(S, K) ==
    {DictSpace([i \in 1..Len(c) |-> <<k[i], c[i]>>]) :
        <<k, c>> \in {kc \in SeqsUpTo(K, MaxWidth) \X SeqsUpTo(S, MaxWidth) :
                        Len(kc[1]) = Len(kc[2]) /\ Injective(kc[1])}}
ContainersOver(S, K) == TuplesOver(S) \cup DictsOver(S, K)

(* Action spaces handed to make_flat_and_multidiscrete_atn_space. *)
AtnLeaves ==
    {Discrete(n) : n \in 2..MaxCard}
        \cup {MultiDiscrete(<<MaxCard, 2>>), Box(<<2>>, "float")}
AtnSpaces == AtnLeaves \cup ContainersOver(AtnLeaves, {"a", "b"})

(* Nested spaces handed to flatten_space. *)
KeyLeaves == {Discrete(2), Box(<<2>>, "float")}
KeySpaces1 == KeyLeaves \cup ContainersOver(KeyLeaves, KeyNames)
KeySpacesOver(S) == S \cup ContainersOver(S, KeyNames)

(* Spaces whose samples go through flatten / concatenate / split / unflatten. *)
SampleLeaves ==
    {Box(<<2>>, "float"), Box(<<>>, "float"), Box(<<1, 2>>, "int"),
     Discrete(2), MultiDiscrete(<<2, 2>>)}
SampleSpaces1 == ContainersOver(SampleLeaves, {"a", "b"})
SampleSpaces ==
    SampleLeaves \cup SampleSpaces1
        \cup {TupleSpace(<<c>>) : c \in SampleSpaces1}
        \cup {DictSpace(<< <<"a", c>> >>) : c \in SampleSpaces1}

(* The element values tried for a dtype: 0.5 and 2.0, or 0 and 1. *)
ElemValues(dtype) == IF dtype = "float" THEN {1, 4} ELSE {0, 2}

(* The samples of a leaf space; a batched sample has a leading batch axis. *)
LeafSamples(sp, isBatched) ==
    LET lead == IF isBatched THEN <<BatchSize>> ELSE <<>>
        n == Prod(lead) * Prod(sp.shape)
    IN CASE sp.kind = "Box" ->
              {NdArray(lead \o sp.shape, sp.dtype, d) :
                  d \in [1..n -> ElemValues(sp.dtype)]}
         [] sp.kind = "Discrete" ->
              IF isBatched
              THEN {NdArray(lead, "int", d) : d \in [1..n -> {2 * k : k \in 0..(sp.n - 1)}]}
              ELSE {PyInt(2 * k) : k \in 0..(sp.n - 1)}
         [] sp.kind = "MultiDiscrete" ->
              {NdArray(lead \o sp.shape, "int", d) :
                  d \in {f \in [1..n -> {2 * k : k \in 0..(MaxCard - 1)}] :
                           \A j \in 1..n :
                               f[j] < 2 * sp.nvec[((j - 1) % Len(sp.nvec)) + 1]}}

RECURSIVE SeqProduct(_)
(* The sequences s with s[i] \in sets[i]. *)
SeqProduct(sets) ==
    IF sets = <<>> THEN {<<>>}
    ELSE {<<h>> \o t : h \in Head(sets), t \in SeqProduct(Tail(sets))}

RECURSIVE SamplesOf(_, _)
SamplesOf(sp, isBatched) ==
    IF sp.kind = "Tuple"
    THEN {PyTuple(c) :
            c \in SeqProduct([i \in 1..Len(sp.spaces) |->
                                SamplesOf(sp.spaces[i], isBatched)])}
    ELSE IF sp.kind = "Dict"
    THEN {PyDict([i \in 1..Len(c) |-> <<sp.spaces[i][1], c[i]>>]) :
            c \in SeqProduct([i \in 1..Len(sp.spaces) |->
                                SamplesOf(sp.spaces[i][2], isBatched)])}
    ELSE LeafSamples(sp, isBatched)

(***************************************************************************)
(* Inputs of the grouping and padding helpers.                             *)
(***************************************************************************)
AgentIds == {"a1", "a2", "a3"}
AgentOrder == <<"a1", "a2", "a3">>
AgentIndex(a) == CHOOSE i \in 1..Len(AgentOrder) : AgentOrder[i] = a
AgentLists == {s \in SeqsUpTo(AgentIds, Cardinality(AgentIds)) : Injective(s)}

(* What the environment reports for agent a: none of it equals a pad value. *)
ObsOf(a) == NdArray(<<1>>, "float", <<2 * AgentIndex(a) - 1>>)
RewardOf(a) == PyInt(2 * AgentIndex(a))
DoneOf(a) == PyBool(TRUE)
InfoOf(a) == PyDict(<< <<"id", PyInt(2 * AgentIndex(a))>> >>)
DataOf(m, a) ==
    CASE m = 1 -> ObsOf(a) [] m = 2 -> RewardOf(a) [] m = 3 -> DoneOf(a)
      [] OTHER -> InfoOf(a)

(* flat_observation * 0 *)
PadObservation == NdArray(<<1>>, "float", <<0>>)

RECURSIVE SelectIn(_, _)
(* The elements of the sequence s that are in S, in the order of s. *)
SelectIn(s, S) ==
    IF s = <<>> THEN <<>>
    ELSE (IF Head(s) \in S THEN <<Head(s)>> ELSE <<>>) \o SelectIn(Tail(s), S)

(* The m-th kind of per-agent mapping, keyed by the agents in S. *)
MappingOver(m, S) ==
    LET ks == SelectIn(AgentOrder, S)
    IN [i \in 1..Len(ks) |-> <<ks[i], DataOf(m, ks[i])>>]

(* Teams: one or two teams, each a non-empty list of agents. *)
TeamIds == <<"t1", "t2">>
MemberLists == {SelectIn(AgentOrder, S) : S \in (SUBSET AgentIds) \ {{}}}
TeamSpecs ==
    {[t \in 1..Len(ms) |-> <<TeamIds[t], ms[t]>>] :
        ms \in SeqsUpTo(MemberLists, Len(TeamIds))}

HelpersIdle ==
    /\ agents = <<>>
    /\ agent_data = <<>>
    /\ team_spec = <<>>
    /\ strict = FALSE
    /\ grouped = NoVal
    /\ ungrouped = NoVal
    /\ padded = NoVal

PureIdle ==
    /\ space = NoVal
    /\ flat_space = NoVal
    /\ multidiscrete = NoVal
    /\ sample = NoVal
    /\ batched = FALSE
    /\ flat_sample = NoVal
    /\ stacked_sample = NoVal
    /\ leaves = NoVal
    /\ unflattened = NoVal

AdapterIdle ==
    /\ adapter = "none"
    /\ debug = FALSE
    /\ initialized = FALSE
    /\ done = FALSE
    /\ teams = NoVal
    /\ possible_agents = <<>>
    /\ structured_action_space = NoVal
    /\ env_agents = <<>>
    /\ env_done = FALSE
    /\ resets = 0
    /\ env_call = NoVal
    /\ ret = NoVal

otherThanPure == <<helperVars, adapterVars>>
otherThanHelpers == <<space, flat_space, multidiscrete, sample, batched,
                      flat_sample, stacked_sample, leaves, unflattened, adapterVars>>

InitPad ==
    /\ pc = "args"
    /\ PureIdle
    /\ AdapterIdle
    /\ agents \in AgentLists
    /\ agent_data \in
         {[m \in 1..4 |-> MappingOver(m, S[m])] :
             S \in [1..4 -> SUBSET Range(agents)]}
    /\ team_spec = <<>>
    /\ strict = FALSE
    /\ grouped = NoVal
    /\ ungrouped = NoVal
    /\ padded = NoVal

PadStep ==
    /\ pc = "args"
    /\ Len(agent_data) = 4
    /\ agents # <<>>
    /\ padded' = pad_to_const_num_agents(agents, agent_data[1], agent_data[2],
                                         agent_data[3], agent_data[4], PadObservation)
    /\ pc' = "padded"
    /\ UNCHANGED <<agents, agent_data, team_spec, strict, grouped, ungrouped>>
    /\ UNCHANGED otherThanHelpers

InitTeams ==
    /\ pc = "args"
    /\ PureIdle
    /\ AdapterIdle
    /\ agents = <<>>
    /\ team_spec \in TeamSpecs
    /\ strict \in BOOLEAN
    /\ agent_data \in
         {[m \in 1..Len(S) |-> MappingOver(m, S[m])] :
             S \in SeqsUpTo(SUBSET AgentIds, MaxArgs)}
    /\ grouped = NoVal
    /\ ungrouped = NoVal
    /\ padded = NoVal

GroupStep ==
    /\ pc = "args"
    /\ team_spec # <<>>
    /\ grouped' = group_into_teams(team_spec, agent_data, strict)
    /\ pc' = "grouped"
    /\ UNCHANGED <<agents, agent_data, team_spec, strict, ungrouped, padded>>
    /\ UNCHANGED otherThanHelpers

UngroupStep ==
    /\ pc = "grouped"
    /\ grouped.kind = "team_data"
    /\ ungrouped' = ungroup_from_teams(grouped.items)
    /\ pc' = "ungrouped"
    /\ UNCHANGED <<agents, agent_data, team_spec, strict, grouped, padded>>
    /\ UNCHANGED otherThanHelpers

NextTeams == GroupStep \/ UngroupStep

SpecPad == InitPad /\ [][PadStep]_vars
SpecTeams == InitTeams /\ [][NextTeams]_vars

(***************************************************************************)
(* The pure functions as steps: each action applies one function of the    *)
(* source to the results so far.                                           *)
(***************************************************************************)
InitPure(spaces, withSample) ==
    /\ pc = "space"
    /\ space \in spaces
    /\ batched \in (IF withSample THEN BOOLEAN ELSE {FALSE})
    /\ sample \in (IF withSample THEN SamplesOf(space, batched) ELSE {NoVal})
    /\ flat_space = NoVal
    /\ multidiscrete = NoVal
    /\ flat_sample = NoVal
    /\ stacked_sample = NoVal
    /\ leaves = NoVal
    /\ unflattened = NoVal
    /\ HelpersIdle
    /\ AdapterIdle

(* flat_action_space = flatten_space(atn_space) *)
FlattenSpaceStep ==
    /\ pc = "space"
    /\ flat_space' = flatten_space(space)
    /\ pc' = "flat_space"
    /\ UNCHANGED <<space, multidiscrete, sample, batched, flat_sample,
                   stacked_sample, leaves, unflattened>>
    /\ UNCHANGED otherThanPure

(* multidiscrete_space = convert_to_multidiscrete(flat_action_space) *)
ConvertStep ==
    /\ pc = "flat_space"
    /\ sample = NoVal
    /\ multidiscrete' = convert_to_multidiscrete(flat_space)
    /\ pc' = "converted"
    /\ UNCHANGED <<space, flat_space, sample, batched, flat_sample,
                   stacked_sample, leaves, unflattened>>
    /\ UNCHANGED otherThanPure

FlattenStep ==
    /\ pc = "flat_space"
    /\ sample # NoVal
    /\ flat_sample' = python_flatten(sample)
    /\ pc' = "flattened"
    /\ UNCHANGED <<space, flat_space, multidiscrete, sample, batched,
                   stacked_sample, leaves, unflattened>>
    /\ UNCHANGED otherThanPure

ConcatenateStep ==
    /\ pc = "flattened"
    /\ stacked_sample' = concatenate(flat_sample)
    /\ pc' = "concatenated"
    /\ UNCHANGED <<space, flat_space, multidiscrete, sample, batched,
                   flat_sample, leaves, unflattened>>
    /\ UNCHANGED otherThanPure

SplitStep ==
    /\ pc = "concatenated"
    /\ leaves' = split(stacked_sample, flat_space, batched)
    /\ pc' = "split"
    /\ UNCHANGED <<space, flat_space, multidiscrete, sample, batched,
                   flat_sample, stacked_sample, unflattened>>
    /\ UNCHANGED otherThanPure

(* An exception raised by split leaves the composition. *)
UnflattenStep ==
    /\ pc = "split"
    /\ unflattened' = IF IsErr(leaves) THEN leaves
                      ELSE python_unflatten(Values(leaves.items), space)
    /\ pc' = "unflattened"
    /\ UNCHANGED <<space, flat_space, multidiscrete, sample, batched,
                   flat_sample, stacked_sample, leaves>>
    /\ UNCHANGED otherThanPure

InitMerge == InitPure(AtnSpaces, FALSE)
InitSpace == InitPure(KeySpacesOver(KeySpaces1), FALSE)
InitRoundTrip == InitPure(SampleSpaces, TRUE)

NextSpace == FlattenSpaceStep \/ ConvertStep
NextRoundTrip ==
    FlattenSpaceStep \/ FlattenStep \/ ConcatenateStep \/ SplitStep \/ UnflattenStep

SpecMerge == InitMerge /\ [][NextSpace]_vars
SpecSpace == InitSpace /\ [][NextSpace]_vars
SpecRoundTrip == InitRoundTrip /\ [][NextRoundTrip]_vars

(***************************************************************************)
(* The wrapped environments.  The multi-agent one has the possible agents  *)
(* a1 and a2; env.reset() makes them all active, env.step() lets any of   *)
(* the active agents finish and reports on those active when it was        *)
(* called.  env.action_space(agent) and env.observation_space(agent) raise *)
(* KeyError for an id the environment does not know.                       *)
(***************************************************************************)
EnvPossibleAgents == <<"a1", "a2">>
EnvActionSpace(a) ==
    IF a = "a2" THEN TupleSpace(<<Discrete(2), Discrete(2)>>) ELSE Discrete(2)
GymActionSpace == Discrete(2)

(* The flat actions tried: [0], [0, 1]. *)
AtnVectors == {NdArray(<<1>>, "int", <<0>>), NdArray(<<2>>, "int", <<0, 2>>)}

(* MultiDiscrete.contains *)
Contains(md, atn) ==
    /\ atn.shape = <<Len(md.nvec)>>
    /\ \A i \in 1..Len(md.nvec) : atn.data[i] >= 0 /\ atn.data[i] < 2 * md.nvec[i]

(* gym.spaces.Dict({agent: space(agent) for agent in agents}) *)
make_team_space(members) ==
    IF \E i \in 1..Len(members) : members[i] \notin Range(EnvPossibleAgents)
    THEN Err("KeyError")
    ELSE DictSpace([i \in 1..Len(members) |-> <<members[i], EnvActionSpace(members[i])>>])

(* postprocess_and_flatten of an observation under the default Postprocessor. *)
postprocess_and_flatten(ob) == concatenate(python_flatten(ob))

(***************************************************************************)
(* The checks both step() methods start with.                              *)
(***************************************************************************)
(* usage_error without the test of self.done. *)
usage_error_done_unchecked(isInitialized, isDone) ==
    IF ~isInitialized
    THEN Raise("APIUsageError", <<"step() called before reset()">>)
    ELSE NoVal

usage_error(isInitialized, isDone) ==
    IF ~isInitialized
    THEN Raise("APIUsageError", <<"step() called before reset()">>)
    ELSE IF isDone
    THEN Raise("APIUsageError", <<"step() called after environment is done">>)
    ELSE NoVal

(* PettingZooPufferEnv.done *)
PettingZooDone == Len(env_agents) = 0

(* The last call made on the adapter: its arguments, and what it returned  *)
(* or raised.                                                              *)
Returned(op, val) == [op |-> op, args |-> <<>>, raised |-> NoVal, val |-> val]
Raised(op, e) == [op |-> op, args |-> <<>>, raised |-> e, val |-> <<>>]
Called(r, args) == [r EXCEPT !.args = args]
EnvStep(actions) == [kind |-> "env.step", actions |-> actions]
EnvReset == [kind |-> "env.reset", actions |-> <<>>]

(***************************************************************************)
(* PettingZooPufferEnv                                                     *)
(***************************************************************************)
(* action_space(agent): the space, or the exception raised before          *)
(* self.structured_action_space is assigned.                               *)
action_space(agent) ==
    IF agent \notin Range(possible_agents)
    THEN Raise("InvalidAgentError", <<agent, possible_agents>>)
    ELSE IF teams # NoVal THEN make_team_space(Get(teams.items, agent))
    ELSE EnvActionSpace(agent)

RECURSIVE check_action_spaces(_, _, _)
(* One item of check_spaces: sp is what spaces(k) gave. *)
check_action_space(actions, i, cache, sp) ==
    IF IsErr(sp) THEN [exc |-> "ValueError", cache |-> cache]
    ELSE IF ~Contains(convert_to_multidiscrete(flatten_space(sp)), actions[i][2])
    THEN [exc |-> "ValueError", cache |-> sp]
    ELSE check_action_spaces(actions, i + 1, sp)

(* check_spaces(actions, self.action_space): every query re-assigns the    *)
(* cached action space.  [exc, cache]                                      *)
check_action_spaces(actions, i, cache) ==
    IF i > Len(actions) THEN [exc |-> "none", cache |-> cache]
    ELSE check_action_space(actions, i, cache, action_space(actions[i][1]))

(* unflatten(split(flat, flat_space, batched=False)) for a whole space.     *)
(* The adapters import unflatten from the compiled extension;              *)
(* python_unflatten is its Python form.                                    *)
unpack(flat, sp) ==
    python_unflatten_leaves(split(flat, flatten_space(sp), FALSE), sp)

RECURSIVE unpack_actions(_, _, _, _)
(* unpacked_actions[agent] = atn, then the rest of the loop. *)
unpack_actions_set(actions, i, acc, cache, atn) ==
    IF IsErr(atn) THEN atn
    ELSE unpack_actions(actions, i + 1, DictSet(acc, actions[i][1], atn), cache)

(* The loop that unpacks the action of every active agent with the cached  *)
(* flat action space.                                                      *)
unpack_actions(actions, i, acc, cache) ==
    IF i > Len(actions) THEN [kind |-> "dict", items |-> acc]
    ELSE IF actions[i][1] \notin Range(env_agents)
    THEN unpack_actions(actions, i + 1, acc, cache)
    ELSE unpack_actions_set(actions, i, acc, cache, unpack(actions[i][2], cache))

(* What env.step() reports when the agents in fin finish at this step. *)
EnvReport(fin) ==
    [m \in 1..4 |->
        [i \in 1..Len(env_agents) |->
            <<env_agents[i],
              IF m = 3 THEN PyBool(env_agents[i] \in fin) ELSE DataOf(m, env_agents[i])>>]]

RECURSIVE first_missing_info(_, _, _)
(* The loop "for agent in obs" after env.step(): infos[agent] raises       *)
(* KeyError for a key of obs that infos does not have.                     *)
first_missing_info(obs, infos, i) ==
    IF i > Len(obs) THEN FALSE
    ELSE IF ~Has(infos, obs[i][1]) THEN TRUE
    ELSE first_missing_info(obs, infos, i + 1)

(* step() once the observations, rewards and dones are grouped.  The       *)
(* environment's observations lie in its observation space, so the closing *)
(* check_spaces(obs, self.observation_space) passes.                       *)
step_pad(g, infos) ==
    IF IsErr(g) THEN g
    ELSE IF first_missing_info(g.items[1], infos, 1) THEN Err("KeyError")
    ELSE [kind |-> "tuple",
          items |-> pad_to_const_num_agents(EnvPossibleAgents, g.items[1], g.items[2],
                                            g.items[3], infos, PadObservation)]

(* step() from env.step() on: what is returned or raised. *)
step_after_env(report) ==
    step_pad(IF teams # NoVal
             THEN group_into_teams(teams.items, <<report[1], report[2], report[3]>>, debug)
             ELSE [kind |-> "list", items |-> <<report[1], report[2], report[3]>>],
             report[4])

(* The keys of actions that are no possible agent, in the order of actions. *)
UnknownAgents(actions) ==
    SelectIn(Keys(actions), KeySet(actions) \ Range(possible_agents))

StepRaised(e, cache) ==
    [ret |-> Raised("step", e), env_call |-> NoVal,
     env_agents |-> env_agents, cache |-> cache]

(* step() with env.step(unpacked) called and its report processed. *)
step_return(fin, cache, unpacked, after) ==
    [ret |-> IF IsErr(after) THEN Raised("step", after)
             ELSE Returned("step", after.items),
     env_call |-> EnvStep(unpacked.items),
     env_agents |-> SelectIn(env_agents, Range(env_agents) \ fin),
     cache |-> cache]

(* step() once the actions are unpacked. *)
step_env(fin, cache, unpacked) ==
    IF IsErr(unpacked) THEN StepRaised(unpacked, cache)
    ELSE IF teams # NoVal
    THEN (* ungroup_from_teams(self.teams, unpacked_actions): two arguments for *)
         (* a function of one.                                                  *)
         StepRaised(Err("TypeError"), cache)
    ELSE step_return(fin, cache, unpacked, step_after_env(EnvReport(fin)))

(* step() once the actions are checked against the action spaces. *)
step_unpack(actions, fin, chk) ==
    IF chk.exc # "none" THEN StepRaised(Err(chk.exc), chk.cache)
    ELSE step_env(fin, chk.cache, unpack_actions(actions, 1, <<>>, chk.cache))

(* step() once the usage checks are done. *)
step_checked(actions, fin, usage, unknown) ==
    IF IsErr(usage) THEN StepRaised(usage, structured_action_space)
    ELSE IF debug /\ unknown # <<>>
    THEN StepRaised(Raise("InvalidAgentError", <<unknown[1], env_agents>>),
                    structured_action_space)
    ELSE IF unknown # <<>>
    THEN (* self.postprocessors[agent] *)
         StepRaised(Err("KeyError"), structured_action_space)
    ELSE step_unpack(actions, fin,
                     IF debug
                     THEN check_action_spaces(actions, 1, structured_action_space)
                     ELSE [exc |-> "none", cache |-> structured_action_space])

(* step(actions), the environment letting the agents in fin finish:        *)
(* [ret, env_call, env_agents, cache].                                     *)
pettingzoo_step(actions, fin) ==
    step_checked(actions, fin, usage_error(initialized, PettingZooDone),
                 UnknownAgents(actions))

(* What env.reset() returns: an observation for every possible agent. *)
EnvObservations == MappingOver(1, Range(EnvPossibleAgents))

(* reset() once the observations are flattened. *)
reset_return(flat) ==
    IF \E i \in 1..Len(flat) : IsErr(flat[i][2])
    THEN Raised("reset", Err("ValueError"))
    ELSE Returned("reset", flat)

(* reset() once the observations are grouped. *)
reset_flatten(g) ==
    IF IsErr(g) THEN Raised("reset", g)
    ELSE reset_return([i \in 1..Len(possible_agents) |->
            <<possible_agents[i],
              postprocess_and_flatten(
                  IF teams # NoVal THEN PyDict(Get(g.items, possible_agents[i]))
                  ELSE Get(g.items, possible_agents[i]))>>])

(* reset(): what is returned or raised once env.reset() has run. *)
pettingzoo_reset ==
    reset_flatten(IF teams # NoVal
                  THEN group_into_teams(teams.items, <<EnvObservations>>, debug)
                  ELSE [kind |-> "team_data", items |-> EnvObservations])

(* __init__(teams=t): the attributes set, or the exception of the first    *)
(* observation_space / action_space call.  check_teams is not called.      *)
pettingzoo_init(t) ==
    [possible_agents |-> IF t = NoVal THEN EnvPossibleAgents ELSE Keys(t.items),
     space |-> IF t = NoVal THEN EnvActionSpace(EnvPossibleAgents[1])
               ELSE make_team_space(t.items[1][2])]

ActionKeys == Range(possible_agents) \cup {"ghost"}
ActionInputs ==
    {<<>>} \cup
    {[i \in 1..Len(ks) |-> <<ks[i], vs[i]>>] :
        <<ks, vs>> \in {kv \in SeqsUpTo(ActionKeys, MaxActions)
                                \X SeqsUpTo(AtnVectors, MaxActions) :
                          Len(kv[1]) = Len(kv[2]) /\ Injective(kv[1])}}

(* The teams tried at construction: partitions of the possible agents,     *)
(* an agent left out, an agent in two teams, a member the environment does *)
(* not know.                                                               *)
AdapterTeamSpecs ==
    {<< <<"t1", <<"a1", "a2">> >> >>,
     << <<"t1", <<"a1">> >>, <<"t2", <<"a2">> >> >>,
     << <<"t1", <<"a1">> >> >>,
     << <<"t1", <<"a1">> >>, <<"t2", <<"a1", "a2">> >> >>,
     << <<"t1", <<"a1", "a2", "ghost">> >> >>,
     << <<"t1", <<"a1">> >>, <<"t2", <<"a2", "ghost">> >> >>}
TeamArgs == {NoVal} \cup {PyDict(t) : t \in AdapterTeamSpecs}

InitGym ==
    /\ adapter = "gym"
    /\ initialized = FALSE
    /\ done = TRUE
    /\ teams = NoVal
    /\ possible_agents = <<>>
    /\ structured_action_space = GymActionSpace
    /\ ret = Returned("__init__", <<>>)

Constructed(t, made) ==
    /\ teams = t
    /\ initialized = FALSE
    /\ done = FALSE
    /\ IF IsErr(made.space)
       THEN /\ adapter = "none"
            /\ possible_agents = <<>>
            /\ structured_action_space = NoVal
            /\ ret = Raised("__init__", made.space)
       ELSE /\ adapter = "pettingzoo"
            /\ possible_agents = made.possible_agents
            /\ structured_action_space = made.space
            /\ ret = Returned("__init__", <<>>)

InitPettingZoo == \E t \in TeamArgs : Constructed(t, pettingzoo_init(t))

Init ==
    /\ pc = "adapter"
    /\ PureIdle
    /\ HelpersIdle
    /\ debug \in BOOLEAN
    /\ env_agents = <<>>
    /\ env_done = FALSE
    /\ resets = 0
    /\ env_call = NoVal
    /\ (InitGym \/ InitPettingZoo)

unchangedByAdapter == <<pc, space, flat_space, multidiscrete, sample, batched,
                        flat_sample, stacked_sample, leaves, unflattened, helperVars>>

GymReset ==
    /\ adapter = "gym"
    /\ resets < MaxResets
    /\ initialized' = TRUE
    /\ done' = FALSE
    /\ env_done' = FALSE
    /\ env_call' = EnvReset
    /\ resets' = resets + 1
    /\ ret' = Returned("reset", <<NoVal>>)
    /\ UNCHANGED <<adapter, debug, teams, possible_agents, structured_action_space,
                   env_agents>>
    /\ UNCHANGED unchangedByAdapter

GymStepRaised(e) ==
    [ret |-> Raised("step", e), env_call |-> NoVal, done |-> done, env_done |-> env_done]

(* step() once the action is unpacked. *)
gym_step_env(atn, d) ==
    IF IsErr(atn) THEN GymStepRaised(atn)
    ELSE [ret |-> Returned("step", <<PyBool(d)>>), env_call |-> EnvStep(atn),
          done |-> d, env_done |-> d]

(* step(action), the environment answering done = d. *)
gym_step(action, d, usage) ==
    IF IsErr(usage) THEN GymStepRaised(usage)
    ELSE IF debug /\ ~Contains(convert_to_multidiscrete(flatten_space(GymActionSpace)),
                               action)
    THEN GymStepRaised(Err("ValueError"))
    ELSE gym_step_env(unpack(action, GymActionSpace), d)

GymStepped(action, r) ==
    /\ ret' = Called(r.ret, <<action>>)
    /\ env_call' = r.env_call
    /\ done' = r.done
    /\ env_done' = r.env_done

GymStep ==
    /\ adapter = "gym"
    /\ \E action \in AtnVectors, d \in BOOLEAN :
         GymStepped(action, gym_step(action, d, usage_error(initialized, done)))
    /\ UNCHANGED <<adapter, debug, initialized, teams, possible_agents,
                   structured_action_space, env_agents, resets>>
    /\ UNCHANGED unchangedByAdapter

PettingZooReset ==
    /\ adapter = "pettingzoo"
    /\ resets < MaxResets
    /\ env_agents' = EnvPossibleAgents
    /\ env_call' = EnvReset
    /\ initialized' = TRUE
    /\ resets' = resets + 1
    /\ ret' = pettingzoo_reset
    /\ UNCHANGED <<adapter, debug, done, teams, possible_agents,
                   structured_action_space, env_done>>
    /\ UNCHANGED unchangedByAdapter

PettingZooStepped(actions, r) ==
    /\ ret' = Called(r.ret, actions)
    /\ env_call' = r.env_call
    /\ env_agents' = r.env_agents
    /\ structured_action_space' = r.cache

PettingZooStep ==
    /\ adapter = "pettingzoo"
    /\ \E actions \in ActionInputs, fin \in SUBSET Range(env_agents) :
         PettingZooStepped(actions, pettingzoo_step(actions, fin))
    /\ UNCHANGED <<adapter, debug, initialized, done, teams, possible_agents,
                   env_done, resets>>
    /\ UNCHANGED unchangedByAdapter

ActionSpaceQueried(agent, sp) ==
    /\ ret' = Called(IF IsErr(sp) THEN Raised("action_space", sp)
                     ELSE Returned("action_space", <<sp>>), <<agent>>)
    /\ structured_action_space' = IF IsErr(sp) THEN structured_action_space ELSE sp

(* action_space(agent) called by the user. *)
PettingZooActionSpace ==
    /\ adapter = "pettingzoo"
    /\ \E agent \in ActionKeys : ActionSpaceQueried(agent, action_space(agent))
    /\ env_call' = NoVal
    /\ UNCHANGED <<adapter, debug, initialized, done, teams, possible_agents,
                   env_agents, env_done, resets>>
    /\ UNCHANGED unchangedByAdapter

(* observation_space(agent): the box space returned, or the exception      *)
(* raised.  It caches the observation spaces and leaves the action space   *)
(* attributes alone.                                                       *)
observation_space(agent) ==
    IF agent \notin Range(possible_agents)
    THEN Raise("InvalidAgentError", <<agent, possible_agents>>)
    ELSE IF teams = NoVal THEN Box(<<1>>, "float")
    ELSE IF IsErr(make_team_space(Get(teams.items, agent)))
    THEN make_team_space(Get(teams.items, agent))
    ELSE Box(<<Len(Get(teams.items, agent))>>, "float")

ObservationSpaceQueried(agent, sp) ==
    ret' = Called(IF IsErr(sp) THEN Raised("observation_space", sp)
                  ELSE Returned("observation_space", <<sp>>), <<agent>>)

(* observation_space(agent) called by the user. *)
PettingZooObservationSpace ==
    /\ adapter = "pettingzoo"
    /\ \E agent \in ActionKeys : ObservationSpaceQueried(agent, observation_space(agent))
    /\ env_call' = NoVal
    /\ UNCHANGED <<adapter, debug, initialized, done, teams, possible_agents,
                   structured_action_space, env_agents, env_done, resets>>
    /\ UNCHANGED unchangedByAdapter

Next ==
    \/ GymReset
    \/ GymStep
    \/ PettingZooReset
    \/ PettingZooStep
    \/ PettingZooActionSpace
    \/ PettingZooObservationSpace

Spec == Init /\ [][Next]_vars

(***************************************************************************)
(* Claims about the pure space and sample functions.                       *)
(***************************************************************************)
RECURSIVE LeafPaths(_, _)
(* The leaves of a space in depth-first pre-order, each with its path. *)
LeafPaths(sp, key) ==
    IF sp.kind = "Tuple"
    THEN ConcatAll([i \in 1..Len(sp.spaces) |->
            LeafPaths(sp.spaces[i], key \o "T" \o ToString(i - 1) \o ".")])
    ELSE IF sp.kind = "Dict"
    THEN ConcatAll([i \in 1..Len(sp.spaces) |->
            LeafPaths(sp.spaces[i][2], key \o "D" \o sp.spaces[i][1] \o ".")])
    ELSE << <<key \o "V", sp>> >>

(* The cardinalities of the leaves of a flat leaf-map, in its order. *)
Cardinalities(flat) ==
    ConcatAll([i \in 1..Len(flat) |->
        IF flat[i][2].kind = "Discrete" THEN <<flat[i][2].n>>
        ELSE IF flat[i][2].kind = "MultiDiscrete" THEN flat[i][2].nvec
        ELSE <<>>])

HasBoxLeaf(flat) == \E i \in 1..Len(flat) : flat[i][2].kind = "Box"

(* The elements of a leaf value, in row-major order. *)
Elems(x) == IF x.kind = "int" THEN <<x.v>> ELSE x.data

RECURSIVE SampleEq(_, _)
(* Two samples have the same containers and element-wise equal leaves. *)
SampleEq(x, y) ==
    IF x.kind = "tuple"
    THEN /\ y.kind = "tuple"
         /\ Len(y.items) = Len(x.items)
         /\ \A i \in 1..Len(x.items) : SampleEq(x.items[i], y.items[i])
    ELSE IF x.kind = "dict"
    THEN /\ y.kind = "dict"
         /\ Keys(y.items) = Keys(x.items)
         /\ \A i \in 1..Len(x.items) : SampleEq(x.items[i][2], y.items[i][2])
    ELSE y.kind \in {"int", "ndarray"} /\ Elems(y) = Elems(x)

RECURSIVE CategoricalsArePlainInts(_, _)
(* Every value at a Discrete leaf of sp is a Python int. *)
CategoricalsArePlainInts(x, sp) ==
    IF sp.kind = "Tuple"
    THEN /\ x.kind = "tuple"
         /\ Len(x.items) = Len(sp.spaces)
         /\ \A i \in 1..Len(sp.spaces) :
                CategoricalsArePlainInts(x.items[i], sp.spaces[i])
    ELSE IF sp.kind = "Dict"
    THEN /\ x.kind = "dict"
         /\ Len(x.items) = Len(sp.spaces)
         /\ \A i \in 1..Len(sp.spaces) :
                CategoricalsArePlainInts(x.items[i][2], sp.spaces[i][2])
    ELSE sp.kind = "Discrete" => x.kind = "int"

(* C3: round trip.  For every space built from Tuple / Dict containers and  *)
(* Box / Discrete / MultiDiscrete leaves and every conforming sample,       *)
(* unflatten(split(concatenate(flatten(sample)), flatten_space(space)),     *)
(* space) raises nothing and equals the sample element-wise, batched and    *)
(* unbatched, and unbatched a Discrete leaf comes back as a Python int.     *)
C3_RoundTrip ==
    pc = "unflattened" =>
        /\ ~IsErr(unflattened)
        /\ SampleEq(sample, unflattened)
        /\ ~batched => CategoricalsArePlainInts(unflattened, space)

(* C8: discrete merge.  Over Discrete / MultiDiscrete leaves the result is  *)
(* one MultiDiscrete whose nvec is the leaves' cardinalities in leaf-map    *)
(* order; with any Box leaf the call raises ValueError and returns nothing. *)
C8_DiscreteMerge ==
    pc = "converted" =>
        IF HasBoxLeaf(flat_space)
        THEN multidiscrete = Err("ValueError")
        ELSE /\ multidiscrete.kind = "MultiDiscrete"
             /\ multidiscrete.nvec = Cardinalities(flat_space)

(* A Dict of a MultiDiscrete and a Discrete leaf has been merged. *)
C8_Witness ==
    /\ pc = "converted"
    /\ space.kind = "Dict"
    /\ Len(flat_space) = 2
    /\ flat_space[1][2].kind = "MultiDiscrete"
    /\ flat_space[2][2].kind = "Discrete"
    /\ multidiscrete.kind = "MultiDiscrete"
    /\ Len(multidiscrete.nvec) = 3

(* C9: flatten_space lists the leaves of the space in depth-first          *)
(* pre-order, one entry per leaf, each under its 'T{index}.' / 'D{key}.'   *)
(* path ending in 'V'.                                                     *)
C9_FlattenSpaceLayout ==
    pc # "space" => flat_space = LeafPaths(space, "")

(***************************************************************************)
(* Claims about the grouping and padding helpers.                          *)
(***************************************************************************)
PadValue(m) ==
    CASE m = 1 -> PadObservation [] m = 2 -> PyInt(0) [] m = 3 -> PyBool(FALSE)
      [] OTHER -> EmptyInfo

(* C5: every mapping returned by pad_to_const_num_agents has exactly the   *)
(* possible agents as keys, in the order of the list; an agent missing     *)
(* from an input gets the zero pad observation, reward 0, done false or an *)
(* empty info, and an agent present keeps its value.                       *)
C5_PadCorrect ==
    pc = "padded" =>
        \A m \in 1..4 :
            /\ Keys(padded[m]) = agents
            /\ \A i \in 1..Len(agents) :
                   padded[m][i][2] =
                       IF Has(agent_data[m], agents[i])
                       THEN DataOf(m, agents[i]) ELSE PadValue(m)

(* Three agents listed in another order than the inputs', the observation *)
(* of one of them missing and that of another present.                     *)
C5_Witness ==
    /\ pc = "padded"
    /\ Len(agents) = 3
    /\ agents # AgentOrder
    /\ \E a, b \in Range(agents) :
           ~Has(agent_data[1], a) /\ Has(agent_data[1], b)

(* The team_data of each mapping passed, whether returned alone or in a list. *)
GroupedList == IF grouped.kind = "team_data" THEN <<grouped.items>> ELSE grouped.items

(* C10: group_into_teams returns, for each mapping passed, for every team  *)
(* exactly the entries of the team's members present in the mapping, with  *)
(* their values; in strict mode a mapping whose agent set differs from the *)
(* teams' agent set makes the call raise ValueError instead.               *)
C10_GroupIntoTeams ==
    pc \in {"grouped", "ungrouped"} =>
        IF strict /\ \E m \in 1..Len(agent_data) :
                        KeySet(agent_data[m]) # TeamMembers(team_spec)
        THEN grouped = Err("ValueError")
        ELSE /\ ~IsErr(grouped)
             /\ Len(GroupedList) = Len(agent_data)
             /\ \A m \in 1..Len(agent_data) :
                  /\ Keys(GroupedList[m]) = Keys(team_spec)
                  /\ \A t \in 1..Len(team_spec) :
                       LET sub == GroupedList[m][t][2]
                       IN /\ KeySet(sub) =
                                Range(team_spec[t][2]) \cap KeySet(agent_data[m])
                          /\ \A k \in KeySet(sub) : Get(sub, k) = DataOf(m, k)

(* Not strict: a team with one member present and one absent. *)
C10_Witness ==
    /\ pc = "grouped"
    /\ ~strict
    /\ ~IsErr(grouped)
    /\ \E t \in 1..Len(team_spec) :
         \E a, b \in Range(team_spec[t][2]) :
            /\ Has(agent_data[1], a)
            /\ ~Has(agent_data[1], b)
            /\ Has(GroupedList[1][t][2], a)

(* The teams partition the agents: every agent in exactly one team. *)
IsPartition(tms, agts) ==
    /\ TeamMembers(tms) = agts
    /\ \A t, u \in 1..Len(tms) :
         t # u => Range(tms[t][2]) \cap Range(tms[u][2]) = {}

DictEq(d, e) ==
    /\ KeySet(d) = KeySet(e)
    /\ \A k \in KeySet(d) : Get(d, k) = Get(e, k)

(* The functions alone: ungroup_from_teams undoes group_into_teams when the *)
(* teams partition the agents and the data covers them.                     *)
GroupingInverse ==
    (/\ pc = "ungrouped"
     /\ IsPartition(team_spec, AgentIds)
     /\ KeySet(agent_data[1]) = AgentIds)
        => DictEq(ungrouped, agent_data[1])

(***************************************************************************)
(* Claims about the adapters.                                              *)
(***************************************************************************)
RaisedExc(r) == IF IsErr(r.raised) THEN r.raised.exc ELSE "none"

(* The episode is over: the last env.step() of the single-agent            *)
(* environment returned done, or no agent of the multi-agent one is        *)
(* active.                                                                 *)
EpisodeComplete == IF adapter = "gym" THEN env_done ELSE env_agents = <<>>

(* C1: with either adapter, step() raises the usage error and leaves the   *)
(* environment's step uncalled whenever reset() was never called or the    *)
(* episode is complete, and is not refused with the usage error otherwise, *)
(* so a reset() that starts a new episode makes step() accepted again.     *)
C1_UsageErrors ==
    [][ret'.op = "step" =>
         IF resets = 0 \/ EpisodeComplete
         THEN RaisedExc(ret') = "APIUsageError" /\ env_call' = NoVal
         ELSE RaisedExc(ret') # "APIUsageError"]_vars

(* step() refused after the episode of a reset adapter completed. *)
C1_Witness ==
    /\ resets >= 1
    /\ EpisodeComplete
    /\ ret.op = "step"
    /\ RaisedExc(ret) = "APIUsageError"
    /\ env_call = NoVal

(* C2: a multi-agent step() given an action for an id outside the possible *)
(* agents raises the unknown-agent error carrying that id and the possible *)
(* agents, and env.step() is not called.                                   *)
C2_UnknownAgent ==
    [][(/\ ret'.op = "step"
        /\ adapter = "pettingzoo"
        /\ RaisedExc(ret') # "APIUsageError"
        /\ UnknownAgents(ret'.args) # <<>>)
       => /\ ret'.raised = Raise("InvalidAgentError",
                                 <<UnknownAgents(ret'.args)[1], possible_agents>>)
          /\ env_call' = NoVal]_vars

(* The teams given at construction partition the environment's agents. *)
TeamsValid == teams = NoVal \/ IsPartition(teams.items, Range(EnvPossibleAgents))

(* Every action is keyed by a possible agent and lies in that agent's      *)
(* action space.                                                           *)
ActionsValid(actions) ==
    \A i \in 1..Len(actions) :
        /\ actions[i][1] \in Range(possible_agents)
        /\ Contains(convert_to_multidiscrete(flatten_space(action_space(actions[i][1]))),
                    actions[i][2])

(* A step() the caller is entitled to: the adapter was reset, agents are   *)
(* active, the teams are a partition and the actions are valid.            *)
StepEntitled(actions) ==
    /\ adapter = "pettingzoo"
    /\ resets >= 1
    /\ env_agents # <<>>
    /\ TeamsValid
    /\ ActionsValid(actions)

(* The possible agent k has data in what the environment reported on the   *)
(* agents active before the step.                                          *)
HasEnvData(k) ==
    IF teams = NoVal THEN k \in Range(env_agents)
    ELSE Range(Get(teams.items, k)) \cap Range(env_agents) # {}

(* C4: a multi-agent step(), with or without teams and however many agents *)
(* have finished, returns four mappings each keyed by exactly the          *)
(* adapter's possible agents, in which every agent or team the environment *)
(* reported on has its data and not the pad values.                        *)
C4_StepMappings ==
    [][(ret'.op = "step" /\ StepEntitled(ret'.args))
       => /\ ret'.raised = NoVal
          /\ Len(ret'.val) = 4
          /\ \A m \in 1..4 : Keys(ret'.val[m]) = possible_agents
          /\ \A i \in 1..Len(possible_agents) :
                HasEnvData(possible_agents[i])
                => /\ Get(ret'.val[1], possible_agents[i]) # PadObservation
                   /\ Get(ret'.val[2], possible_agents[i]) # PyInt(0)
                   /\ Get(ret'.val[4], possible_agents[i]) # EmptyInfo
                   /\ teams = NoVal
                      => \A m \in {1, 2, 4} :
                            Get(ret'.val[m], possible_agents[i])
                                = DataOf(m, possible_agents[i])]_vars

(* The team actions of a step(): each team's action unpacked into its      *)
(* members' actions.                                                       *)
TeamActions(actions) ==
    [i \in 1..Len(actions) |->
        <<actions[i][1], unpack(actions[i][2], action_space(actions[i][1])).items>>]

(* C6: the multi-agent step() of an adapter with teams hands env.step()    *)
(* the team actions ungrouped by ungroup_from_teams, the inverse of        *)
(* group_into_teams.                                                       *)
C6_StepUngroupsTeamActions ==
    [][(ret'.op = "step" /\ teams # NoVal /\ StepEntitled(ret'.args))
       => env_call' = EnvStep(ungroup_from_teams(TeamActions(ret'.args)))]_vars

(* C7: teams that do not partition the environment's possible agents make  *)
(* the construction fail, so no adapter is ever used with them.            *)
C7_InvalidTeamsRejected ==
    (teams # NoVal /\ ~IsPartition(teams.items, Range(EnvPossibleAgents)))
    => /\ adapter = "none"
       /\ ret.op = "__init__"
       /\ IsErr(ret.raised)

RECURSIVE OwnUnpacked(_, _, _)
(* The action of every active agent unpacked with the flat action space of *)
(* that agent's own action space.                                          *)
OwnUnpacked(actions, i, acc) ==
    IF i > Len(actions) THEN acc
    ELSE IF actions[i][1] \notin Range(env_agents)
    THEN OwnUnpacked(actions, i + 1, acc)
    ELSE OwnUnpacked(actions, i + 1,
             DictSet(acc, actions[i][1],
                     unpack(actions[i][2], action_space(actions[i][1]))))

(* C11: in a multi-agent step(), whatever space queries and steps came     *)
(* before, the action of each agent is split and unflattened with the flat *)
(* action space of that agent's own action space, so env.step() receives   *)
(* every active agent's action in that agent's own structure.              *)
C11_OwnFlatActionSpace ==
    [][(ret'.op = "step" /\ teams = NoVal /\ StepEntitled(ret'.args))
       => env_call' = EnvStep(OwnUnpacked(ret'.args, 1, <<>>))]_vars

=============================================================================
